---- MODULE Spec2Model ----
(***************************************************************************)
(* Model of the saturating_numbers crate (src/src/lib.rs).                 *)
(*                                                                         *)
(* SaturatingNumber<T> is a one-field tuple struct over an unsigned        *)
(* integer type T (u32, u64, u128).  Its operators forward to the          *)
(* per-type capability traits HasSaturatingAdd / Sub / Mul, whose          *)
(* implementations call the primitive's saturating_add / _sub / _mul.      *)
(*                                                                         *)
(* Unsigned integers are represented at their real width as little-endian  *)
(* sequences of 8-bit limbs (u32 = 4 limbs, u64 = 8, u128 = 16), because   *)
(* the values do not fit the model checker's integers.  The machine        *)
(* operations wrap at the width and report the carry / borrow / overflow;  *)
(* the mathematical reference used by the properties works on unbounded    *)
(* naturals (limb sequences of any length).                                *)
(***************************************************************************)
EXTENDS Integers, Sequences, FiniteSets, TLC

VARIABLES T, inst, res, ord, op, lhs, rhs, n

vars == <<T, inst, res, ord, op, lhs, rhs, n>>

(***************************************************************************)
(* Bounds and program constants                                            *)
(***************************************************************************)

\* number of caller operations explored after construction
MaxSteps == 3

\* u32::BITS, u64::BITS, u128::BITS
U32_BITS == 32

U64_BITS == 64

U128_BITS == 128

\* limb radix of the representation: one limb is one byte
Radix == 2 ^ 8

Types == {"u32", "u64", "u128"}

BITS(ty) == CASE ty = "u32" -> U32_BITS [] ty = "u64" -> U64_BITS [] ty = "u128" -> U128_BITS

Limbs(bits) == bits \div 8

(***************************************************************************)
(* Fixed-width unsigned integers                                           *)
(***************************************************************************)

\* the 32-bit maximum zero-extended to the width (a maximum shared between widths)
SharedMAX(bits) == [i \in 1..Limbs(bits) |-> IF i <= Limbs(U32_BITS) THEN Radix - 1 ELSE 0]

\* the all-ones value of the width: uN::MAX
MAX(bits) == [i \in 1..Limbs(bits) |-> Radix - 1]

MIN(bits) == [i \in 1..Limbs(bits) |-> 0]

\* a small literal k (0 <= k < Radix) as a value of the width
Lit(bits, k) == [i \in 1..Limbs(bits) |-> IF i = 1 THEN k ELSE 0]

\* MAX - k for a small literal k
MaxMinus(bits, k) == [i \in 1..Limbs(bits) |-> IF i = 1 THEN Radix - 1 - k ELSE Radix - 1]

\* 2^(bits/2): the smallest value whose square overflows to exactly 2^bits
HalfBit(bits) == [i \in 1..Limbs(bits) |-> IF i = Limbs(bits) \div 2 + 1 THEN 1 ELSE 0]

\* x + y at the width: the wrapped sum and the carry out of the top limb
RECURSIVE add_limbs(_, _, _, _, _)
add_limbs(x, y, i, carry, acc) ==
    IF i > Len(x) THEN [val |-> acc, overflow |-> carry # 0]
    ELSE LET s == x[i] + y[i] + carry
         IN  add_limbs(x, y, i + 1, s \div Radix, Append(acc, s % Radix))

overflowing_add(bits, x, y) == add_limbs(x, y, 1, 0, <<>>)

\* x - y at the width: the wrapped difference and the borrow out of the top limb
RECURSIVE sub_limbs(_, _, _, _, _)
sub_limbs(x, y, i, borrow, acc) ==
    IF i > Len(x) THEN [val |-> acc, overflow |-> borrow # 0]
    ELSE LET d == x[i] - y[i] - borrow
         IN  IF d < 0 THEN sub_limbs(x, y, i + 1, 1, Append(acc, d + Radix))
                      ELSE sub_limbs(x, y, i + 1, 0, Append(acc, d))

overflowing_sub(bits, x, y) == sub_limbs(x, y, 1, 0, <<>>)

\* x * y at the width: the low half of the double-width product, and whether
\* the high half is non-zero
RECURSIVE column(_, _, _, _)
column(x, y, col, i) ==
    IF i > Len(x) \/ i > col THEN 0
    ELSE (IF col + 1 - i <= Len(y) THEN x[i] * y[col + 1 - i] ELSE 0) + column(x, y, col, i + 1)

RECURSIVE mul_limbs(_, _, _, _, _, _)
mul_limbs(x, y, col, carry, acc, high) ==
    IF col > 2 * Len(x) THEN [val |-> acc, overflow |-> high]
    ELSE LET t == column(x, y, col, 1) + carry
         IN  IF col <= Len(x)
             THEN mul_limbs(x, y, col + 1, t \div Radix, Append(acc, t % Radix), high)
             ELSE mul_limbs(x, y, col + 1, t \div Radix, acc, high \/ t % Radix # 0)

overflowing_mul(bits, x, y) == mul_limbs(x, y, 1, 0, <<>>, FALSE)

\* uN::saturating_add / saturating_sub / saturating_mul of the primitive types
saturating_add(bits, x, y) ==
    LET r == overflowing_add(bits, x, y) IN IF r.overflow THEN MAX(bits) ELSE r.val

saturating_sub(bits, x, y) ==
    LET r == overflowing_sub(bits, x, y) IN IF r.overflow THEN MIN(bits) ELSE r.val

saturating_mul(bits, x, y) ==
    LET r == overflowing_mul(bits, x, y) IN IF r.overflow THEN MAX(bits) ELSE r.val

(***************************************************************************)
(* Capability traits: one implementation per primitive type                *)
(***************************************************************************)

u32_do_saturating_add(self, rhs_) == saturating_add(U32_BITS, self, rhs_)

u32_do_saturating_sub(self, rhs_) == saturating_sub(U32_BITS, self, rhs_)

u32_do_saturating_mul(self, rhs_) == saturating_mul(U32_BITS, self, rhs_)

u64_do_saturating_add(self, rhs_) == saturating_add(U64_BITS, self, rhs_)

u64_do_saturating_sub(self, rhs_) == saturating_sub(U64_BITS, self, rhs_)

\* a 64-bit multiplication that clamps to the maximum of the 32-bit binding
u64_do_saturating_mul_shared_max(self, rhs_) ==
    LET r == overflowing_mul(U64_BITS, self, rhs_)
    IN  IF r.overflow THEN SharedMAX(U64_BITS) ELSE r.val

u64_do_saturating_mul(self, rhs_) == saturating_mul(U64_BITS, self, rhs_)

u128_do_saturating_add(self, rhs_) == saturating_add(U128_BITS, self, rhs_)

u128_do_saturating_sub(self, rhs_) == saturating_sub(U128_BITS, self, rhs_)

u128_do_saturating_mul(self, rhs_) == saturating_mul(U128_BITS, self, rhs_)

\* static dispatch of T::do_saturating_add / _sub / _mul on the type parameter
do_saturating_add(ty, self, rhs_) ==
    CASE ty = "u32" -> u32_do_saturating_add(self, rhs_)
      [] ty = "u64" -> u64_do_saturating_add(self, rhs_)
      [] ty = "u128" -> u128_do_saturating_add(self, rhs_)

do_saturating_sub(ty, self, rhs_) ==
    CASE ty = "u32" -> u32_do_saturating_sub(self, rhs_)
      [] ty = "u64" -> u64_do_saturating_sub(self, rhs_)
      [] ty = "u128" -> u128_do_saturating_sub(self, rhs_)

do_saturating_mul(ty, self, rhs_) ==
    CASE ty = "u32" -> u32_do_saturating_mul(self, rhs_)
      [] ty = "u64" -> u64_do_saturating_mul(self, rhs_)
      [] ty = "u128" -> u128_do_saturating_mul(self, rhs_)

(***************************************************************************)
(* SaturatingNumber<T>: a tuple struct with the single field f0            *)
(***************************************************************************)

SaturatingNumber(v) == [f0 |-> v]

from(input) == SaturatingNumber(input)

\* T's own `+`, `-`, `*` with wrap-around in place of the capability call
add_wrapping(ty, self, rhs_) == SaturatingNumber(overflowing_add(BITS(ty), self.f0, rhs_.f0).val)

\* the capability of another operator called by copy-and-paste
add_calls_sub(ty, self, rhs_) == SaturatingNumber(do_saturating_sub(ty, self.f0, rhs_.f0))

add(ty, self, rhs_) == SaturatingNumber(do_saturating_add(ty, self.f0, rhs_.f0))

sub_wrapping(ty, self, rhs_) == SaturatingNumber(overflowing_sub(BITS(ty), self.f0, rhs_.f0).val)

\* operands passed to the capability in the wrong order
sub_swapped(ty, self, rhs_) == SaturatingNumber(do_saturating_sub(ty, rhs_.f0, self.f0))

sub(ty, self, rhs_) == SaturatingNumber(do_saturating_sub(ty, self.f0, rhs_.f0))

mul_wrapping(ty, self, rhs_) == SaturatingNumber(overflowing_mul(BITS(ty), self.f0, rhs_.f0).val)

mul(ty, self, rhs_) == SaturatingNumber(do_saturating_mul(ty, self.f0, rhs_.f0))

\* The in-place forms take the receiver by mutable reference and the right
\* operand by value: m is the caller's instances, self names the receiver.

\* every instance holding the receiver's value is updated with it (copies that alias)
add_assign_aliased(ty, m, self, rhs_) ==
    [i \in DOMAIN m |-> IF m[i] = m[self]
                        THEN [m[i] EXCEPT !.f0 = do_saturating_add(ty, m[self].f0, rhs_.f0)]
                        ELSE m[i]]

add_assign(ty, m, self, rhs_) ==
    [m EXCEPT ![self].f0 = do_saturating_add(ty, m[self].f0, rhs_.f0)]

\* the difference is computed but with the operands exchanged
sub_assign_swapped(ty, m, self, rhs_) ==
    [m EXCEPT ![self].f0 = do_saturating_sub(ty, rhs_.f0, m[self].f0)]

sub_assign(ty, m, self, rhs_) ==
    [m EXCEPT ![self].f0 = do_saturating_sub(ty, m[self].f0, rhs_.f0)]

\* the full double-width product is stored without clamping to the width
mul_assign_unclamped(ty, m, self, rhs_) ==
    LET k == Limbs(BITS(ty))
        wide(v) == [i \in 1..(2 * k) |-> IF i <= k THEN v[i] ELSE 0]
    IN  [m EXCEPT ![self].f0 = overflowing_mul(2 * BITS(ty), wide(m[self].f0), wide(rhs_.f0)).val]

mul_assign(ty, m, self, rhs_) ==
    [m EXCEPT ![self].f0 = do_saturating_mul(ty, m[self].f0, rhs_.f0)]

(***************************************************************************)
(* #[derive(PartialOrd, Ord, PartialEq, Eq, Copy, Clone)]                  *)
(***************************************************************************)

\* Ord::cmp of the primitive: decided by the most significant differing limb
RECURSIVE cmp_from(_, _, _)
cmp_from(x, y, i) ==
    IF i = 0 THEN "Equal"
    ELSE IF x[i] < y[i] THEN "Less"
    ELSE IF x[i] > y[i] THEN "Greater"
    ELSE cmp_from(x, y, i - 1)

u_cmp(x, y) == cmp_from(x, y, Len(x))

u_eq(x, y) == x = y

\* the derived comparison with the outcome reversed
cmp_reversed(self, other) == u_cmp(other.f0, self.f0)

\* derived Ord / PartialOrd: the fields in order, here the single field
cmp(self, other) == u_cmp(self.f0, other.f0)

\* derived PartialEq
eq(self, other) == u_eq(self.f0, other.f0)

\* the comparison operators ==, !=, <, <=, >, >= and Ord::cmp of two instances
compare(self, other) ==
    [eq  |-> eq(self, other),
     ne  |-> ~eq(self, other),
     lt  |-> cmp(self, other) = "Less",
     le  |-> cmp(self, other) # "Greater",
     gt  |-> cmp(self, other) = "Greater",
     ge  |-> cmp(self, other) # "Less",
     cmp |-> cmp(self, other)]

\* derived Clone / Copy: a bitwise copy of the field
clone(self) == [f0 |-> self.f0]

(***************************************************************************)
(* The caller: three instances a, b, c of SaturatingNumber<T>, the result  *)
(* res of the last binary operator and the outcome ord of the last         *)
(* comparison.  op, lhs, rhs record the last operation and its operands.   *)
(***************************************************************************)

Names == {"a", "b", "c"}

\* raw values a caller constructs instances from
Raw(ty) ==
    LET w == BITS(ty)
    IN  {MIN(w), Lit(w, 1), Lit(w, 10), HalfBit(w), MAX(w)}

NoResult == <<>>

NoOrdering == <<>>

Init ==
    /\ T \in Types
    /\ \E x \in Raw(T), y \in Raw(T) :
          inst = [i \in Names |-> IF i = "b" THEN from(y) ELSE from(x)]
    /\ res = NoResult
    /\ ord = NoOrdering
    /\ op = "from"
    /\ lhs = "a"
    /\ rhs = "a"
    /\ n = 0

\* let d = SaturatingNumber::from(x)
From(d, x) ==
    /\ n < MaxSteps
    /\ inst' = [inst EXCEPT ![d] = from(x)]
    /\ op' = "from" /\ lhs' = d /\ rhs' = d
    /\ n' = n + 1
    /\ UNCHANGED <<T, res, ord>>

\* let d = s   (s stays usable: the type is Copy)
Copy(d, s) ==
    /\ n < MaxSteps
    /\ d # s
    /\ inst' = [inst EXCEPT ![d] = clone(inst[s])]
    /\ op' = "copy" /\ lhs' = d /\ rhs' = s
    /\ n' = n + 1
    /\ UNCHANGED <<T, res, ord>>

\* res = l + r
Add(l, r) ==
    /\ n < MaxSteps
    /\ res' = <<add(T, clone(inst[l]), clone(inst[r]))>>
    /\ op' = "add" /\ lhs' = l /\ rhs' = r
    /\ n' = n + 1
    /\ UNCHANGED <<T, inst, ord>>

\* res = l - r
Sub(l, r) ==
    /\ n < MaxSteps
    /\ res' = <<sub(T, clone(inst[l]), clone(inst[r]))>>
    /\ op' = "sub" /\ lhs' = l /\ rhs' = r
    /\ n' = n + 1
    /\ UNCHANGED <<T, inst, ord>>

\* res = l * r
Mul(l, r) ==
    /\ n < MaxSteps
    /\ res' = <<mul(T, clone(inst[l]), clone(inst[r]))>>
    /\ op' = "mul" /\ lhs' = l /\ rhs' = r
    /\ n' = n + 1
    /\ UNCHANGED <<T, inst, ord>>

\* l += r
AddAssign(l, r) ==
    /\ n < MaxSteps
    /\ inst' = add_assign(T, inst, l, clone(inst[r]))
    /\ op' = "add_assign" /\ lhs' = l /\ rhs' = r
    /\ n' = n + 1
    /\ UNCHANGED <<T, res, ord>>

\* l -= r
SubAssign(l, r) ==
    /\ n < MaxSteps
    /\ inst' = sub_assign(T, inst, l, clone(inst[r]))
    /\ op' = "sub_assign" /\ lhs' = l /\ rhs' = r
    /\ n' = n + 1
    /\ UNCHANGED <<T, res, ord>>

\* l *= r
MulAssign(l, r) ==
    /\ n < MaxSteps
    /\ inst' = mul_assign(T, inst, l, clone(inst[r]))
    /\ op' = "mul_assign" /\ lhs' = l /\ rhs' = r
    /\ n' = n + 1
    /\ UNCHANGED <<T, res, ord>>

\* ord = the comparisons of l with the last result
Compare(l) ==
    /\ n < MaxSteps
    /\ res # NoResult
    /\ ord' = <<compare(inst[l], res[1])>>
    /\ op' = "cmp" /\ lhs' = l /\ rhs' = "res"
    /\ n' = n + 1
    /\ UNCHANGED <<T, inst, res>>

\* the operand pairs the caller combines: a with b, in either order
Operands == {<<"a", "b">>, <<"b", "a">>}

Next ==
    \/ \E x \in Raw(T) : From("b", x)
    \/ Copy("c", "a")
    \/ \E p \in Operands : Add(p[1], p[2])
    \/ \E p \in Operands : Sub(p[1], p[2])
    \/ \E p \in Operands : Mul(p[1], p[2])
    \/ \E p \in Operands : AddAssign(p[1], p[2])
    \/ \E p \in Operands : SubAssign(p[1], p[2])
    \/ \E p \in Operands : MulAssign(p[1], p[2])
    \/ \E l \in Names : Compare(l)

Spec == Init /\ [][Next]_vars

(***************************************************************************)
(* Mathematical reference: unbounded naturals as little-endian digit       *)
(* sequences without leading zero digits (zero is the empty sequence).     *)
(***************************************************************************)

RECURSIVE Norm(_)
Norm(x) == IF x = <<>> THEN <<>>
           ELSE IF x[Len(x)] = 0 THEN Norm(SubSeq(x, 1, Len(x) - 1))
           ELSE x

RECURSIVE NatAddC(_, _, _)
NatAddC(x, y, carry) ==
    IF x = <<>> /\ y = <<>> THEN (IF carry = 0 THEN <<>> ELSE <<carry>>)
    ELSE LET dx == IF x = <<>> THEN 0 ELSE Head(x)
             dy == IF y = <<>> THEN 0 ELSE Head(y)
             tx == IF x = <<>> THEN <<>> ELSE Tail(x)
             ty == IF y = <<>> THEN <<>> ELSE Tail(y)
         IN  <<(dx + dy + carry) % Radix>> \o NatAddC(tx, ty, (dx + dy + carry) \div Radix)

NatAdd(x, y) == Norm(NatAddC(x, y, 0))

RECURSIVE NatScaleC(_, _, _)
NatScaleC(d, y, carry) ==
    IF y = <<>> THEN (IF carry = 0 THEN <<>> ELSE <<carry>>)
    ELSE <<(d * Head(y) + carry) % Radix>> \o NatScaleC(d, Tail(y), (d * Head(y) + carry) \div Radix)

\* x * y = x[1] * y + Radix * (Tail(x) * y)
RECURSIVE NatMulH(_, _)
NatMulH(x, y) ==
    IF x = <<>> THEN <<>>
    ELSE NatAddC(NatScaleC(Head(x), y, 0), <<0>> \o NatMulH(Tail(x), y), 0)

NatMul(x, y) == Norm(NatMulH(x, y))

\* x < y, for x and y without leading zeros
NatLess(x, y) ==
    \/ Len(x) < Len(y)
    \/ /\ Len(x) = Len(y)
       /\ \E i \in 1..Len(x) : x[i] < y[i] /\ \A j \in (i + 1)..Len(x) : x[j] = y[j]

\* 2^bits
Pow2(bits) == [i \in 1..(Limbs(bits) + 1) |-> IF i = Limbs(bits) + 1 THEN 1 ELSE 0]

\* v is min(m, 2^bits - 1) for the natural m, and is a value of the width
IsClampOf(bits, v, m) ==
    /\ Len(v) = Limbs(bits)
    /\ IF NatLess(m, Pow2(bits)) THEN Norm(v) = m ELSE NatAdd(Norm(v), <<1>>) = Pow2(bits)

\* v is max(x - y, 0) for the naturals x and y, and is a value of the width
IsFloorDiff(bits, v, x, y) ==
    /\ Len(v) = Limbs(bits)
    /\ IF NatLess(x, y) THEN Norm(v) = <<>> ELSE NatAdd(Norm(v), y) = x

\* the natural number an instance holds
Val(s) == Norm(s.f0)

W == BITS(T)

(***************************************************************************)
(* Properties                                                              *)
(***************************************************************************)

\* C1: the Add operator yields min(x + y, MAX_W) of the mathematical sum, at
\* every width: MAX_W when the sum exceeds it, never a wrapped value.
C1_AddClamps ==
    op = "add" => IsClampOf(W, res[1].f0, NatAdd(Val(inst[lhs]), Val(inst[rhs])))

C1_Witness ==
    /\ op = "add"
    /\ inst[lhs].f0 = MAX(W) /\ inst[rhs].f0 = Lit(W, 10)
    /\ res[1].f0 = MAX(W)

\* C2: the Sub operator yields max(x - y, 0) of the mathematical difference:
\* 0 when x < y, exactly x - y otherwise.
C2_SubFloors ==
    op = "sub" => IsFloorDiff(W, res[1].f0, Val(inst[lhs]), Val(inst[rhs]))

C2_Witness ==
    /\ op = "sub"
    /\ inst[lhs].f0 = Lit(W, 1) /\ inst[rhs].f0 = Lit(W, 10)
    /\ res[1].f0 = MIN(W)

\* C3: the Mul operator yields min(x * y, MAX_W) of the mathematical product,
\* clamped to the maximum of the instance's own width.
C3_MulClamps ==
    op = "mul" => IsClampOf(W, res[1].f0, NatMul(Val(inst[lhs]), Val(inst[rhs])))

C3_Witness ==
    /\ op = "mul" /\ T = "u64"
    /\ inst[lhs].f0 = HalfBit(W) /\ inst[rhs].f0 = HalfBit(W)
    /\ res[1].f0 = MAX(U64_BITS)

\* C4: after any sequence of operations every instance, and every operator
\* result, holds a value within [0, MAX_W] of its width.
InRange(bits, v) ==
    /\ Len(v) = Limbs(bits)
    /\ \A i \in 1..Len(v) : v[i] \in 0..(Radix - 1)
    /\ NatLess(Norm(v), Pow2(bits))

C4_RangeInvariant ==
    /\ \A i \in Names : InRange(W, inst[i].f0)
    /\ res # NoResult => InRange(W, res[1].f0)

C4_Witness ==
    /\ n = MaxSteps /\ op = "mul_assign"
    /\ inst[lhs].f0 = MAX(W) /\ inst[rhs].f0 = Lit(W, 10)

\* C5: after l += r (l -= r, l *= r) the receiver holds the value the binary
\* operator l + r (l - r, l * r) produces from the operands' values before.
C5_InPlaceAgrees ==
    [][/\ op' = "add_assign" => inst'[lhs'] = add(T, inst[lhs'], inst[rhs'])
       /\ op' = "sub_assign" => inst'[lhs'] = sub(T, inst[lhs'], inst[rhs'])
       /\ op' = "mul_assign" => inst'[lhs'] = mul(T, inst[lhs'], inst[rhs'])]_vars

C5_Witness ==
    /\ op = "sub_assign"
    /\ inst[lhs].f0 = MaxMinus(W, 10) /\ inst[rhs].f0 = Lit(W, 10)

\* C6: an in-place update changes the receiver only: the right operand, the
\* copies of the receiver and the last result keep their values; a binary
\* operator changes no instance.
C6_Frame ==
    [][/\ op' \in {"add_assign", "sub_assign", "mul_assign"} =>
            /\ \A i \in Names \ {lhs'} : inst'[i] = inst[i]
            /\ res' = res
       /\ op' \in {"add", "sub", "mul"} => inst' = inst]_vars

C6_Witness ==
    /\ op = "add_assign" /\ lhs = "a" /\ rhs = "b"
    /\ inst["a"].f0 = Lit(W, 20)
    /\ inst["b"].f0 = Lit(W, 10)
    /\ inst["c"].f0 = Lit(W, 10)

\* C7: ==, !=, <, <=, >, >= and cmp of two instances are those of the numbers
\* they hold, also when the instances are results of saturating operations.
C7_OrderingConsistent ==
    op = "cmp" =>
        LET x == Val(inst[lhs])
            y == Val(res[1])
            o == ord[1]
        IN  /\ o.eq <=> x = y
            /\ o.ne <=> x # y
            /\ o.lt <=> NatLess(x, y)
            /\ o.le <=> ~NatLess(y, x)
            /\ o.gt <=> NatLess(y, x)
            /\ o.ge <=> ~NatLess(x, y)
            /\ o.cmp = (IF NatLess(x, y) THEN "Less" ELSE IF NatLess(y, x) THEN "Greater" ELSE "Equal")

C7_Witness ==
    /\ op = "cmp" /\ lhs = "a" /\ n = 3
    /\ inst["c"].f0 = Lit(W, 10) /\ inst["b"].f0 = MAX(W)
    /\ inst["a"].f0 = MAX(W) /\ res[1].f0 = MAX(W)
    /\ ord[1].eq /\ ord[1].cmp = "Equal"

\* C8: x + y == y + x and x * y == y * x, saturating or not.
C8_Commutative ==
    /\ op = "add" => eq(res[1], add(T, inst[rhs], inst[lhs]))
    /\ op = "mul" => eq(res[1], mul(T, inst[rhs], inst[lhs]))

C8_Witness ==
    /\ op = "mul"
    /\ inst[lhs].f0 = Lit(W, 10) /\ inst[rhs].f0 = MAX(W)
    /\ res[1].f0 = MAX(W)

\* C9: x + 0 == x and x - 0 == x for every x, 0 and MAX_W included.
C9_Identity ==
    /\ op = "add" /\ inst[rhs] = from(Lit(W, 0)) => eq(res[1], inst[lhs])
    /\ op = "sub" /\ inst[rhs] = from(Lit(W, 0)) => eq(res[1], inst[lhs])

C9_Witness ==
    /\ op = "sub"
    /\ inst[lhs].f0 = MAX(W) /\ inst[rhs].f0 = Lit(W, 0)
    /\ res[1].f0 = MAX(W)

\* C10: x * 0 == 0 for every x, and MAX_W * y == MAX_W for every y >= 1.
C10_Absorption ==
    /\ op = "mul" /\ inst[rhs] = from(Lit(W, 0)) => eq(res[1], from(Lit(W, 0)))
    /\ op = "mul" /\ inst[lhs] = from(MAX(W)) /\ inst[rhs] # from(Lit(W, 0)) =>
            eq(res[1], from(MAX(W)))

C10_Witness ==
    /\ op = "mul"
    /\ inst[lhs].f0 = MAX(W) /\ inst[rhs].f0 = Lit(W, 10)
    /\ res[1].f0 = MAX(W)
====
